---- MODULE Spec2Model ----
(***************************************************************************)
(* ChangeTracker (src/src/index.ts): one tracked value, a "value already   *)
(* set" flag and three listener arrays.  Callbacks are arbitrary caller    *)
(* code: while one runs it may call any method of the same tracker, return *)
(* or throw.  The stack holds the invocation loops that are in progress,   *)
(* so reentrant calls are part of the model.  The static waitForAll, which  *)
(* works on several trackers through getOnce and setValue, has a            *)
(* specification of its own, SpecWait.                                      *)
(***************************************************************************)
EXTENDS Integers, Sequences, FiniteSets, TLC

\* Bounds of the model.
MaxOps == 4      \* calls of the tracker's methods in one behaviour
MaxTrackers == 2 \* length of the array passed to waitForAll
MaxOthers == 1   \* getOnce listeners of other code on one tracker of the array

Undefined == "undefined"
Values == {Undefined, "v1"}
Fns == {"A", "B"}
Ids == {"t1", "t2"}      \* the trackers that can be passed to waitForAll
Timeouts == {0, 50}      \* timeoutMs

VARIABLES
  _cached,            \* the tracked value
  _valueAlreadySet,   \* set at least once
  _singleListeners,   \* getOnce listeners; [null, arr]: setValue assigns null
  _multiListeners,    \* getEveryChange listeners
  _nextListeners,     \* getNext listeners
  stack,              \* invocation loops in progress, innermost last
  ops,                \* number of method calls made so far
  ret,                \* what the call just made returned, when it was a remove*
  regs,               \* history: every getOnce/getEveryChange/getNext call
  calls,              \* history: every setValue call
  trace,              \* history: every callback invocation, in order
  ctor,               \* history: the constructor's arguments, the latest write
  wait                \* a waitForAll call: its trackers and its local variables

fields == <<_cached, _valueAlreadySet, _singleListeners, _multiListeners, _nextListeners>>
history == <<regs, calls, trace, ctor>>
vars == <<_cached, _valueAlreadySet, _singleListeners, _multiListeners, _nextListeners,
          stack, ops, ret, regs, calls, trace, ctor, wait>>

----------------------------------------------------------------------------
\* Arrays of listeners.  An element is the function and, as history, the
\* number of the registration call that pushed it; identity (indexOf) is
\* the function alone.

Entry(f, r) == [fn |-> f, reg |-> r]

Arr(a) == [null |-> FALSE, arr |-> a]
NullArr == [null |-> TRUE, arr |-> <<>>]

\* Mutant of IndexOf: lastIndexOf, the index of the last identical element.
LastIndexOf(a, f) ==
  IF \E k \in 1..Len(a) : a[k].fn = f
  THEN (CHOOSE k \in 1..Len(a) : a[k].fn = f /\ \A j \in (k+1)..Len(a) : a[j].fn # f) - 1
  ELSE -1

\* Array.prototype.indexOf: 0-based index of the first element identical to
\* f, -1 when there is none.
IndexOf(a, f) ==
  IF \E k \in 1..Len(a) : a[k].fn = f
  THEN (CHOOSE k \in 1..Len(a) : a[k].fn = f /\ \A j \in 1..(k-1) : a[j].fn # f) - 1
  ELSE -1

\* Mutants of Splice1: nothing is taken out; splice(index) without the
\* count, which takes out everything from the index on.
SpliceNothing(a, index) == a

SpliceToEnd(a, index) == SubSeq(a, 1, index)

\* Array.prototype.splice(index, 1): the array without the element at the
\* 0-based index.
Splice1(a, index) ==
  [k \in 1..(Len(a) - 1) |-> IF k <= index THEN a[k] ELSE a[k + 1]]

\* Mutants of Gather: the subscribers gathered before the next-only
\* listeners; the one-off listeners forgotten.
GatherEveryBeforeNext(first, single, next, multi) ==
  (IF first THEN single ELSE <<>>) \o multi \o next

GatherNoOnce(first, single, next, multi) == next \o multi

\* setValue's three gathering loops: the one-off listeners (first assignment
\* only), the clone of the next-only listeners, the subscribers.
Gather(first, single, next, multi) ==
  (IF first THEN single ELSE <<>>) \o next \o multi

\* Mutant of FlagAfterSet: the flag is computed from the value, as the
\* constructor does.
FlagFromValue(value) == value # Undefined

\* this._valueAlreadySet after setValue(value): true, set inside
\* "if (!this._valueAlreadySet)" and never reset.
FlagAfterSet(value) == TRUE

\* Mutant of SingleAfterSet: the one-off listeners are kept.
SingleKept(first, single) == single

\* this._singleListeners = null, inside "if (!this._valueAlreadySet)".
SingleAfterSet(first, single) == IF first THEN NullArr ELSE single

\* Mutant of NextAfterSet: the next-only listeners are not dropped.
NextKept(next) == next

\* this._nextListeners = [], after the clone was taken.
NextAfterSet(next) == <<>>

----------------------------------------------------------------------------
\* History bookkeeping.

FnsOf(a) == [k \in 1..Len(a) |-> a[k].fn]

\* The array a method of the given kind pushes on.
ArrayOf(kind) ==
  CASE kind = "once" -> _singleListeners.arr
    [] kind = "every" -> _multiListeners
    [] kind = "next" -> _nextListeners

\* One registration call: the function, the method ("once", "every", "next"),
\* whether it was pushed on an array, the number of setValue calls begun
\* before it, the functions its array held before it, the flag and the value it found, the setValue calls whose
\* loops were running, and (remCall, remPos) the number of setValue calls
\* begun and of invocations made when a remove* took it out (-1: never).
Reg(f, kind, queued) ==
  [fn |-> f, kind |-> kind, queued |-> queued, at |-> Len(calls),
   before |-> FnsOf(ArrayOf(kind)),
   set |-> _valueAlreadySet, value |-> _cached,
   inside |-> {stack[k].call : k \in 1..Len(stack)} \ {0},
   remCall |-> -1, remPos |-> -1]

\* One invocation: the element called, the setValue call whose loop made it
\* (0: getOnce or getEveryChange called it at once), the argument.
Event(e, c, v) == [reg |-> e.reg, fn |-> e.fn, call |-> c, arg |-> v]

\* A loop "for (i...) callbacks[i](value)" whose callbacks[i] is running (i is
\* 1-based here).
Frame(c, v, cbs) == [call |-> c, value |-> v, callbacks |-> cbs, i |-> 1]

NoRet == "none"

\* The registration a successful remove takes out of the array a.
MarkRemoved(a, index) ==
  [regs EXCEPT ![a[index + 1].reg].remCall = Len(calls),
               ![a[index + 1].reg].remPos = Len(trace)]

----------------------------------------------------------------------------
\* A method is called: by the tracker's owner, or by the running callback.
Call ==
  /\ ops < MaxOps
  /\ ops' = ops + 1

\* Mutant of AlreadySet: forceSetFlag is ignored.
AlreadySetFromValue(initialValue, forceSetFlag) == initialValue # Undefined

\* The constructor's "if (forceSetFlag) ... else ...".
AlreadySet(initialValue, forceSetFlag) ==
  IF forceSetFlag THEN TRUE ELSE initialValue # Undefined

\* constructor(initialValue, { forceSetFlag })
Construct(initialValue, forceSetFlag) ==
  /\ _cached = initialValue
  /\ _valueAlreadySet = AlreadySet(initialValue, forceSetFlag)
  /\ _singleListeners = Arr(<<>>)
  /\ _multiListeners = <<>>
  /\ _nextListeners = <<>>
  /\ stack = <<>>
  /\ ops = 0
  /\ ret = NoRet
  /\ regs = <<>>
  /\ calls = <<>>
  /\ trace = <<>>

NoArgs == [initialValue |-> Undefined, forceSetFlag |-> FALSE, kept |-> FALSE,
           written |-> "none"]

\* The history kept with the constructor's arguments: the argument of the
\* setValue or setSilent call started last ("none": no such call yet).
Written(value) == IF ctor.kept THEN [ctor EXCEPT !.written = value] ELSE ctor

\* new ChangeTracker(initialValue, { forceSetFlag }), as waitForAll sees it:
\* it calls getOnce and setValue only.
NewTracker(initialValue, forceSetFlag) ==
  [_cached |-> initialValue,
   _valueAlreadySet |-> AlreadySet(initialValue, forceSetFlag),
   _singleListeners |-> Arr(<<>>)]

\* waitForAll has not been called; inputs are the trackers that exist.
NotCalled(inputs) ==
  [inputs |-> inputs, called |-> FALSE, trackers |-> <<>>, timeoutMs |-> 0,
   waiter |-> NewTracker(Undefined, FALSE), fulfilled |-> 0, total |-> 0,
   results |-> <<>>, timer |-> "none", emitted |-> <<>>, delivered |-> <<>>]

NoWait == NotCalled([t \in Ids |-> NewTracker(Undefined, FALSE)])

\* A tracker is constructed, with any arguments.
Init ==
  \E initialValue \in Values, forceSetFlag \in BOOLEAN :
    /\ Construct(initialValue, forceSetFlag)
    /\ ctor = NoArgs
    /\ wait = NoWait

\* The same, the arguments kept as history.
InitCtor ==
  \E initialValue \in Values, forceSetFlag \in BOOLEAN :
    /\ Construct(initialValue, forceSetFlag)
    /\ ctor = [initialValue |-> initialValue, forceSetFlag |-> forceSetFlag,
               kept |-> TRUE, written |-> "none"]
    /\ wait = NoWait

\* callback(this._cached) in getOnce and getEveryChange: a loop of one.
InvokeNow(e) ==
  /\ stack' = Append(stack, Frame(0, _cached, <<e>>))
  /\ trace' = Append(trace, Event(e, 0, _cached))

\* Mutant of GetOnce: a listener that has to wait is pushed on the
\* subscribers' array.
GetOnceLikeEvery(callback) ==
  /\ Call
  /\ LET e == Entry(callback, Len(regs) + 1) IN
       IF _valueAlreadySet
       THEN /\ InvokeNow(e)
            /\ regs' = Append(regs, Reg(callback, "once", FALSE))
            /\ UNCHANGED _multiListeners
       ELSE /\ _multiListeners' = Append(_multiListeners, e)
            /\ regs' = Append(regs, Reg(callback, "once", TRUE))
            /\ UNCHANGED <<stack, trace>>
  /\ UNCHANGED <<_cached, _valueAlreadySet, _singleListeners, _nextListeners, calls>>
  /\ ret' = NoRet
  /\ UNCHANGED <<ctor, wait>>

\* getOnce(callback)
GetOnce(callback) ==
  /\ Call
  /\ LET e == Entry(callback, Len(regs) + 1) IN
       IF _valueAlreadySet
       THEN /\ InvokeNow(e)
            /\ regs' = Append(regs, Reg(callback, "once", FALSE))
            /\ UNCHANGED _singleListeners
       ELSE /\ _singleListeners' = Arr(Append(_singleListeners.arr, e))
            /\ regs' = Append(regs, Reg(callback, "once", TRUE))
            /\ UNCHANGED <<stack, trace>>
  /\ UNCHANGED <<_cached, _valueAlreadySet, _multiListeners, _nextListeners, calls>>
  /\ ret' = NoRet
  /\ UNCHANGED <<ctor, wait>>

\* Mutant of GetEveryChange: no call with the current value.
GetEveryChangeNoReplay(callback) ==
  /\ Call
  /\ _multiListeners' = Append(_multiListeners, Entry(callback, Len(regs) + 1))
  /\ regs' = Append(regs, Reg(callback, "every", TRUE))
  /\ UNCHANGED <<_cached, _valueAlreadySet, _singleListeners, _nextListeners,
                 stack, calls, trace>>
  /\ ret' = NoRet
  /\ UNCHANGED <<ctor, wait>>

\* getEveryChange(callback)
GetEveryChange(callback) ==
  /\ Call
  /\ LET e == Entry(callback, Len(regs) + 1) IN
       /\ _multiListeners' = Append(_multiListeners, e)
       /\ regs' = Append(regs, Reg(callback, "every", TRUE))
       /\ IF _valueAlreadySet
          THEN InvokeNow(e)
          ELSE UNCHANGED <<stack, trace>>
  /\ UNCHANGED <<_cached, _valueAlreadySet, _singleListeners, _nextListeners, calls>>
  /\ ret' = NoRet
  /\ UNCHANGED <<ctor, wait>>

\* getNext(callback)
GetNext(callback) ==
  /\ Call
  /\ _nextListeners' = Append(_nextListeners, Entry(callback, Len(regs) + 1))
  /\ regs' = Append(regs, Reg(callback, "next", TRUE))
  /\ UNCHANGED <<_cached, _valueAlreadySet, _singleListeners, _multiListeners,
                 stack, calls, trace>>
  /\ ret' = NoRet
  /\ UNCHANGED <<ctor, wait>>

\* Mutant of SetValue: a value equal to the cached one is not a change, and
\* nobody is notified.
SetValueOnChange(value) ==
  /\ Call
  /\ LET first == ~_valueAlreadySet
         same == _valueAlreadySet /\ value = _cached
         callbacks == IF same THEN <<>>
                      ELSE Gather(first, _singleListeners.arr, _nextListeners,
                                  _multiListeners)
         id == Len(calls) + 1
     IN
       /\ _cached' = value
       /\ _valueAlreadySet' = FlagAfterSet(value)
       /\ _singleListeners' = SingleAfterSet(first, _singleListeners)
       /\ _nextListeners' = IF same THEN _nextListeners
                                    ELSE NextAfterSet(_nextListeners)
       /\ calls' = Append(calls,
            [value |-> value, first |-> first,
             single |-> _singleListeners.arr, next |-> _nextListeners,
             multi |-> _multiListeners, callbacks |-> callbacks,
             status |-> IF callbacks = <<>> THEN "returned" ELSE "running",
             thrower |-> 0])
       /\ IF callbacks = <<>>
          THEN UNCHANGED <<stack, trace>>
          ELSE /\ stack' = Append(stack, Frame(id, value, callbacks))
               /\ trace' = Append(trace, Event(callbacks[1], id, value))
  /\ UNCHANGED <<_multiListeners, regs>>
  /\ ret' = NoRet
  /\ ctor' = Written(value)
  /\ UNCHANGED wait

\* The body of setValue(value), up to and including the call of
\* callbacks[0].
DoSetValue(value) ==
  /\ LET first == ~_valueAlreadySet
         callbacks == Gather(first, _singleListeners.arr, _nextListeners, _multiListeners)
         id == Len(calls) + 1
     IN
       /\ _cached' = value
       /\ _valueAlreadySet' = FlagAfterSet(value)
       /\ _singleListeners' = SingleAfterSet(first, _singleListeners)
       /\ _nextListeners' = NextAfterSet(_nextListeners)
       /\ calls' = Append(calls,
            [value |-> value, first |-> first,
             single |-> _singleListeners.arr, next |-> _nextListeners,
             multi |-> _multiListeners, callbacks |-> callbacks,
             status |-> IF callbacks = <<>> THEN "returned" ELSE "running",
             thrower |-> 0])
       /\ IF callbacks = <<>>
          THEN UNCHANGED <<stack, trace>>
          ELSE /\ stack' = Append(stack, Frame(id, value, callbacks))
               /\ trace' = Append(trace, Event(callbacks[1], id, value))
  /\ UNCHANGED <<_multiListeners, regs>>
  /\ ctor' = Written(value)
  /\ UNCHANGED wait

\* setValue(value)
SetValue(value) ==
  /\ Call
  /\ DoSetValue(value)
  /\ ret' = NoRet

\* Mutant of SetCachedValue: the property is assigned like a field.
SetCachedValueSilent(value) ==
  /\ Call
  /\ _cached' = value
  /\ UNCHANGED <<_valueAlreadySet, _singleListeners, _multiListeners, _nextListeners,
                 stack, regs, calls, trace>>
  /\ ret' = "warn"
  /\ ctor' = Written(value)
  /\ UNCHANGED wait

\* set cachedValue(value) { console.warn(...); this.setValue(value); }
\* The warning is what the step gives to the console.
SetCachedValue(value) ==
  /\ Call
  /\ DoSetValue(value)
  /\ ret' = "warn"

\* Mutant of SetSilent: the value counts as set.
SetSilentSetsFlag(value) ==
  /\ Call
  /\ _cached' = value
  /\ _valueAlreadySet' = TRUE
  /\ UNCHANGED <<_singleListeners, _multiListeners, _nextListeners,
                 stack, regs, calls, trace>>
  /\ ret' = NoRet
  /\ ctor' = Written(value)
  /\ UNCHANGED wait

\* setSilent(value)
SetSilent(value) ==
  /\ Call
  /\ _cached' = value
  /\ UNCHANGED <<_valueAlreadySet, _singleListeners, _multiListeners, _nextListeners,
                 stack, regs, calls, trace>>
  /\ ret' = NoRet
  /\ ctor' = Written(value)
  /\ UNCHANGED wait

\* A loop is left: its frame goes, and the setValue call it belongs to is
\* marked ("returned", or "threw" with the index of the callback that threw).
Pop(s) == SubSeq(s, 1, Len(s) - 1)

Finish(c, status, i) ==
  IF c = 0 THEN calls
  ELSE [calls EXCEPT ![c].status = status, ![c].thrower = i]

\* Mutants of Return.  ReturnLive: the loop runs over the live next-only
\* array, so what a callback registered joins the loop in progress.
\* ReturnSkipsRemoved: the loop passes over a listener that is no longer in
\* any array.
ReturnLive ==
  /\ stack # <<>>
  /\ UNCHANGED ops
  /\ LET top == stack[Len(stack)]
         cbs == IF top.call = 0 THEN top.callbacks ELSE top.callbacks \o _nextListeners
     IN
       /\ _nextListeners' = IF top.call = 0 THEN _nextListeners ELSE <<>>
       /\ IF top.i < Len(cbs)
          THEN /\ stack' = [stack EXCEPT ![Len(stack)].i = top.i + 1,
                                         ![Len(stack)].callbacks = cbs]
               /\ trace' = Append(trace, Event(cbs[top.i + 1], top.call, top.value))
               /\ UNCHANGED calls
          ELSE /\ stack' = Pop(stack)
               /\ calls' = Finish(top.call, "returned", 0)
               /\ UNCHANGED trace
  /\ UNCHANGED <<_cached, _valueAlreadySet, _singleListeners, _multiListeners, regs>>
  /\ ret' = NoRet
  /\ UNCHANGED <<ctor, wait>>

ReturnSkipsRemoved ==
  /\ stack # <<>>
  /\ UNCHANGED ops
  /\ LET top == stack[Len(stack)]
         live == {k \in (top.i + 1)..Len(top.callbacks) :
                    regs[top.callbacks[k].reg].remCall = -1}
     IN
       IF live # {}
       THEN LET k == CHOOSE m \in live : \A n \in live : m <= n IN
            /\ stack' = [stack EXCEPT ![Len(stack)].i = k]
            /\ trace' = Append(trace, Event(top.callbacks[k], top.call, top.value))
            /\ UNCHANGED calls
       ELSE /\ stack' = Pop(stack)
            /\ calls' = Finish(top.call, "returned", 0)
            /\ UNCHANGED trace
  /\ UNCHANGED <<_cached, _valueAlreadySet, _singleListeners, _multiListeners,
                 _nextListeners, regs>>
  /\ ret' = NoRet
  /\ UNCHANGED <<ctor, wait>>

\* The running callback returns: the loop calls the next one, or ends.
Return ==
  /\ stack # <<>>
  /\ UNCHANGED ops
  /\ LET top == stack[Len(stack)] IN
       IF top.i < Len(top.callbacks)
       THEN /\ stack' = [stack EXCEPT ![Len(stack)].i = top.i + 1]
            /\ trace' = Append(trace, Event(top.callbacks[top.i + 1], top.call, top.value))
            /\ UNCHANGED calls
       ELSE /\ stack' = Pop(stack)
            /\ calls' = Finish(top.call, "returned", 0)
            /\ UNCHANGED trace
  /\ UNCHANGED <<_cached, _valueAlreadySet, _singleListeners, _multiListeners,
                 _nextListeners, regs>>
  /\ ret' = NoRet
  /\ UNCHANGED <<ctor, wait>>

\* The running callback throws.  No loop has a try/catch, so the exception
\* leaves the loop that called it; the callback that made that call (if any)
\* catches it and runs on, or does not and its own loop is left as well.
RECURSIVE Unwind(_, _, _)
Unwind(s, cs, n) ==
  IF n = 0 THEN cs
  ELSE Unwind(Pop(s), IF s[Len(s)].call = 0 THEN cs
                      ELSE [cs EXCEPT ![s[Len(s)].call].status = "threw",
                                      ![s[Len(s)].call].thrower = s[Len(s)].i], n - 1)

\* Mutant of Throw: the loop catches what a callback throws and goes on.
ThrowCaught ==
  /\ stack # <<>>
  /\ UNCHANGED ops
  /\ LET top == stack[Len(stack)] IN
       /\ calls' = Finish(top.call, "threw", top.i)
       /\ IF top.i < Len(top.callbacks)
          THEN /\ stack' = [stack EXCEPT ![Len(stack)].i = top.i + 1]
               /\ trace' = Append(trace, Event(top.callbacks[top.i + 1], top.call, top.value))
          ELSE /\ stack' = Pop(stack)
               /\ UNCHANGED trace
  /\ UNCHANGED <<_cached, _valueAlreadySet, _singleListeners, _multiListeners,
                 _nextListeners, regs>>
  /\ ret' = NoRet
  /\ UNCHANGED <<ctor, wait>>

Throw ==
  /\ stack # <<>>
  /\ UNCHANGED ops
  /\ \E n \in 1..Len(stack) :
       /\ stack' = SubSeq(stack, 1, Len(stack) - n)
       /\ calls' = Unwind(stack, calls, n)
  /\ UNCHANGED <<_cached, _valueAlreadySet, _singleListeners, _multiListeners,
                 _nextListeners, regs, trace>>
  /\ ret' = NoRet
  /\ UNCHANGED <<ctor, wait>>

\* Mutant of RemoveGetOnceListener: the listener is taken out of the
\* subscribers' array as well.
RemoveGetOnceListenerEverywhere(listener) ==
  /\ Call
  /\ IF _singleListeners.null
     THEN /\ ret' = "TypeError"
          /\ UNCHANGED <<_singleListeners, _multiListeners, regs>>
     ELSE LET index == IndexOf(_singleListeners.arr, listener)
              other == IndexOf(_multiListeners, listener)
          IN
          /\ ret' = (IF index # -1 THEN "true" ELSE "false")
          /\ IF index # -1
             THEN /\ _singleListeners' = Arr(Splice1(_singleListeners.arr, index))
                  /\ regs' = MarkRemoved(_singleListeners.arr, index)
                  /\ _multiListeners' = IF other # -1
                                          THEN Splice1(_multiListeners, other)
                                          ELSE _multiListeners
             ELSE UNCHANGED <<_singleListeners, _multiListeners, regs>>
  /\ UNCHANGED <<_cached, _valueAlreadySet, _nextListeners,
                 stack, calls, trace, ctor, wait>>

\* removeGetOnceListener(listener).  this._singleListeners.indexOf on null
\* is a TypeError.
RemoveGetOnceListener(listener) ==
  /\ Call
  /\ IF _singleListeners.null
     THEN /\ ret' = "TypeError"
          /\ UNCHANGED <<_singleListeners, regs>>
     ELSE LET index == IndexOf(_singleListeners.arr, listener) IN
          /\ ret' = (IF index # -1 THEN "true" ELSE "false")
          /\ IF index # -1
             THEN /\ _singleListeners' = Arr(Splice1(_singleListeners.arr, index))
                  /\ regs' = MarkRemoved(_singleListeners.arr, index)
             ELSE UNCHANGED <<_singleListeners, regs>>
  /\ UNCHANGED <<_cached, _valueAlreadySet, _multiListeners, _nextListeners,
                 stack, calls, trace, ctor, wait>>

\* removeGetEveryChangeListener(listener)
RemoveGetEveryChangeListener(listener) ==
  /\ Call
  /\ LET index == IndexOf(_multiListeners, listener) IN
       /\ ret' = (IF index # -1 THEN "true" ELSE "false")
       /\ IF index # -1
          THEN /\ _multiListeners' = Splice1(_multiListeners, index)
               /\ regs' = MarkRemoved(_multiListeners, index)
          ELSE UNCHANGED <<_multiListeners, regs>>
  /\ UNCHANGED <<_cached, _valueAlreadySet, _singleListeners, _nextListeners,
                 stack, calls, trace, ctor, wait>>

\* removeGetNextListener(listener)
RemoveGetNextListener(listener) ==
  /\ Call
  /\ LET index == IndexOf(_nextListeners, listener) IN
       /\ ret' = (IF index # -1 THEN "true" ELSE "false")
       /\ IF index # -1
          THEN /\ _nextListeners' = Splice1(_nextListeners, index)
               /\ regs' = MarkRemoved(_nextListeners, index)
          ELSE UNCHANGED <<_nextListeners, regs>>
  /\ UNCHANGED <<_cached, _valueAlreadySet, _singleListeners, _multiListeners,
                 stack, calls, trace, ctor, wait>>

Next ==
  \/ \E f \in Fns : GetOnce(f)
  \/ \E f \in Fns : GetEveryChange(f)
  \/ \E f \in Fns : GetNext(f)
  \/ \E v \in Values : SetValue(v)
  \/ \E v \in Values : SetSilent(v)
  \/ \E f \in Fns : RemoveGetOnceListener(f)
  \/ \E f \in Fns : RemoveGetEveryChangeListener(f)
  \/ \E f \in Fns : RemoveGetNextListener(f)
  \/ Return
  \/ Throw

Spec == Init /\ [][Next]_vars

SpecCtor == InitCtor /\ [][Next]_vars

\* The tracker with its property setter.
NextProp ==
  \/ Next
  \/ \E v \in Values : SetCachedValue(v)

SpecProp == Init /\ [][NextProp]_vars

----------------------------------------------------------------------------
\* static waitForAll(trackers, timeoutMs).  The variable wait holds the
\* trackers that can be passed (inputs), the arguments and the local
\* variables of the call (waiter, fulfilled, total, results, timer), and as
\* history the payloads passed to waiter.setValue (emitted: the error, a
\* copy of results as it was then, the number of values delivered before)
\* and the invocations of the callbacks passed to getOnce (delivered).
\* Indices are 1-based: slot i is the source's i + 1.  The callbacks of
\* waitForAll run no caller code but the listeners of the waiter, which
\* cannot reach the local variables; other code acts on the trackers through
\* InputSetValue and InputGetOnce, each call a step of its own also when a
\* listener makes it, and a listener of other code may throw.

Null == "null"
NotDone == "Not done after timeoutMs ms"

\* All arrays of at most MaxTrackers trackers; a tracker may be listed twice.
Lists == UNION {[1..n -> Ids] : n \in 0..MaxTrackers}

\* { error, results }: results is the array itself, not a copy.
Payload(error) == [error |-> error, results |-> "results"]

\* waiter.setValue(payload).  The listeners of the waiter are other code's:
\* what they do is a step of other code, their invocation is left out.
WaiterSetValue(st, payload) ==
  [st EXCEPT
     !.waiter = [_cached |-> payload,
                 _valueAlreadySet |-> FlagAfterSet(payload),
                 _singleListeners |->
                   SingleAfterSet(~st.waiter._valueAlreadySet,
                                  st.waiter._singleListeners)],
     !.emitted = Append(@, [error |-> payload.error, results |-> st.results,
                            after |-> Len(st.delivered)])]

\* Mutant of Done: the first value is taken for the last.
DoneAtFirst(fulfilled, total) == fulfilled >= 1

\* ++fulfilled === total
Done(fulfilled, total) == fulfilled = total

\* Mutant of Complete: nothing is emitted once the timer has fired.
CompleteUnlessFired(st) ==
  IF st.timer = "fired"
  THEN st
  ELSE WaiterSetValue([st EXCEPT !.timer = IF @ = "armed" THEN "cleared" ELSE @],
                      Payload(Null))

\* Mutant of Complete: the timer is left running.
CompleteKeepsTimer(st) == WaiterSetValue(st, Payload(Null))

\* if (timer) clearTimeout(timer); waiter.setValue({ error: null, results })
Complete(st) ==
  WaiterSetValue([st EXCEPT !.timer = IF @ = "armed" THEN "cleared" ELSE @],
                 Payload(Null))

\* The callback waitForAll passes to getOnce for slot i, called with value
\* by the method named by.
Callback(i, value, by, st) ==
  LET s1 == [st EXCEPT !.results[i] = value,
                       !.fulfilled = @ + 1,
                       !.delivered = Append(@, [i |-> i, value |-> value, by |-> by])]
  IN  IF Done(s1.fulfilled, s1.total) THEN Complete(s1) ELSE s1

\* tracker.getOnce(callback of slot i), tracker being inputs[t]
SlotGetOnce(st, t, i) ==
  IF st.inputs[t]._valueAlreadySet
  THEN Callback(i, st.inputs[t]._cached, "getOnce", st)
  ELSE [st EXCEPT !.inputs[t]._singleListeners =
                     Arr(Append(@.arr, [fn |-> "callback", i |-> i]))]

\* Mutant of RegisterLoop: after the loop, a call that has nothing left to
\* wait for and has emitted nothing completes.
RECURSIVE RegisterLoopThenDone(_, _, _)
RegisterLoopThenDone(list, i, st) ==
  IF i > Len(list)
  THEN IF Done(st.fulfilled, st.total) /\ st.emitted = <<>>
       THEN Complete(st)
       ELSE st
  ELSE RegisterLoopThenDone(list, i + 1, SlotGetOnce(st, list[i], i))

\* for (let i = 0; i < total; i++) { tracker.getOnce(...) }
RECURSIVE RegisterLoop(_, _, _)
RegisterLoop(list, i, st) ==
  IF i > Len(list)
  THEN st
  ELSE RegisterLoop(list, i + 1, SlotGetOnce(st, list[i], i))

\* The invocation loop of setValue on a tracker of the array: the callbacks
\* of waitForAll run; a listener of other code returns, or throws when it is
\* the one numbered thrower, which ends the loop.
RECURSIVE InvokeLoop(_, _, _, _, _)
InvokeLoop(callbacks, k, value, thrower, st) ==
  IF k > Len(callbacks)
  THEN st
  ELSE IF callbacks[k].fn = "callback"
       THEN InvokeLoop(callbacks, k + 1, value, thrower,
                       Callback(callbacks[k].i, value, "setValue", st))
       ELSE IF k = thrower
            THEN st
            ELSE InvokeLoop(callbacks, k + 1, value, thrower, st)

Main == <<_cached, _valueAlreadySet, _singleListeners, _multiListeners,
          _nextListeners, stack, ops, ret, regs, calls, trace, ctor>>

\* The trackers are constructed, with any arguments.
InitWait ==
  /\ Construct(Undefined, FALSE)
  /\ ctor = NoArgs
  /\ \E inputs \in [Ids -> {NewTracker(v, f) : v \in Values, f \in BOOLEAN}] :
       wait = NotCalled(inputs)

\* waitForAll(list, ms), from the first line to "return waiter": the timer
\* cannot fire before the call returns.
WaitForAll(list, ms) ==
  /\ ~wait.called
  /\ wait' = RegisterLoop(list, 1,
               [inputs |-> wait.inputs, called |-> TRUE, trackers |-> list,
                timeoutMs |-> ms,
                waiter |-> NewTracker(Undefined, FALSE),
                fulfilled |-> 0,
                total |-> Len(list),
                results |-> [k \in 1..Len(list) |-> Undefined],
                timer |-> IF ms > 0 THEN "armed" ELSE "none",
                emitted |-> <<>>, delivered |-> <<>>])
  /\ UNCHANGED Main

\* inputs[t].setValue(value), called by other code.
InputSetValue(t, value, thrower) ==
  LET tracker == wait.inputs[t]
      first == ~tracker._valueAlreadySet
      callbacks == Gather(first, tracker._singleListeners.arr, <<>>, <<>>)
  IN  /\ thrower = 0 \/ (thrower \in 1..Len(callbacks) /\ callbacks[thrower].fn = "other")
      /\ wait' = InvokeLoop(callbacks, 1, value, thrower,
                   [wait EXCEPT !.inputs[t] =
                      [_cached |-> value,
                       _valueAlreadySet |-> FlagAfterSet(value),
                       _singleListeners |->
                         SingleAfterSet(first, tracker._singleListeners)]])
      /\ UNCHANGED Main

\* inputs[t].getOnce(listener), called by other code.
InputGetOnce(t) ==
  LET single == wait.inputs[t]._singleListeners.arr IN
  /\ Cardinality({k \in 1..Len(single) : single[k].fn = "other"}) < MaxOthers
  /\ IF wait.inputs[t]._valueAlreadySet
     THEN UNCHANGED wait
     ELSE wait' = [wait EXCEPT !.inputs[t]._singleListeners =
                      Arr(Append(@.arr, [fn |-> "other", i |-> 0]))]
  /\ UNCHANGED Main

\* The function passed to setTimeout runs.
TimerFires ==
  /\ wait.called
  /\ wait.timer = "armed"
  /\ wait' = WaiterSetValue([wait EXCEPT !.timer = "fired"], Payload(NotDone))
  /\ UNCHANGED Main

NextWait ==
  \/ \E list \in Lists, ms \in Timeouts : WaitForAll(list, ms)
  \/ \E t \in Ids, value \in Values, thrower \in 0..(MaxTrackers + MaxOthers) :
       InputSetValue(t, value, thrower)
  \/ \E t \in Ids : InputGetOnce(t)
  \/ TimerFires

SpecWait == InitWait /\ [][NextWait]_vars

----------------------------------------------------------------------------
\* Mutant of cachedValue: the value of the setValue call started last.
cachedValueOfSetValue ==
  IF calls = <<>> THEN ctor.initialValue ELSE calls[Len(calls)].value

\* get cachedValue() { return this._cached; }: an expression without
\* assignment or call, read in any state.
cachedValue == _cached

----------------------------------------------------------------------------
\* Reading the history.

\* The invocations made by the loop of setValue call c, in order.
Invoked(c) == SelectSeq(trace, LAMBDA e : e.call = c)

\* The invocations of the callback of registration r, in order.
EventsOf(r) == SelectSeq(trace, LAMBDA e : e.reg = r)

\* The invocations of registration r made by the loop of setValue call c.
EventsIn(r, c) == SelectSeq(trace, LAMBDA e : e.reg = r /\ e.call = c)

Has(a, f) == \E k \in 1..Len(a) : a[k].fn = f

\* Registration r was in its array when setValue call c began.
PresentAt(r, c) ==
  /\ regs[r].queued
  /\ regs[r].at < c
  /\ (regs[r].remCall = -1 \/ regs[r].remCall >= c)

Ascending(a) == \A j, k \in 1..Len(a) : j < k => a[j].reg < a[k].reg

----------------------------------------------------------------------------
\* C1: the loop of every setValue(v) call invokes, in this order, the
\* one-off listeners queued when the call began (only when the call is the
\* first assignment of a tracker that was not set), then the next-only
\* listeners, then the subscribers, each group in registration order and
\* each callback with v; a call that has returned has invoked them all.
C1_InvocationOrder ==
  \A c \in 1..Len(calls) :
    LET want == (IF calls[c].first THEN calls[c].single ELSE <<>>)
                  \o calls[c].next \o calls[c].multi
        got == Invoked(c)
    IN /\ Ascending(calls[c].single)
       /\ Ascending(calls[c].next)
       /\ Ascending(calls[c].multi)
       /\ Len(got) <= Len(want)
       /\ \A k \in 1..Len(got) :
            /\ got[k].reg = want[k].reg
            /\ got[k].fn = want[k].fn
            /\ got[k].arg = calls[c].value
       /\ (calls[c].status = "returned" => Len(got) = Len(want))

\* A first assignment that found a one-off listener, a next-only listener
\* and a subscriber has returned.
C1_Witness ==
  \E c \in 1..Len(calls) :
    /\ calls[c].status = "returned"
    /\ calls[c].first
    /\ calls[c].single # <<>>
    /\ calls[c].next # <<>>
    /\ calls[c].multi # <<>>
    /\ Len(Invoked(c)) = 3

\* C2, as stated: once a setValue call is over, every callback collected for
\* it has been invoked, also when one of them threw.
C2_AllInvokedDespiteThrow ==
  \A c \in 1..Len(calls) :
    calls[c].status # "running" => Len(Invoked(c)) = Len(calls[c].callbacks)

\* C2, amended: when callback number k of a setValue cycle throws, the
\* exception leaves setValue: the first k collected callbacks have been
\* invoked with the cycle's value and no later one is invoked.
C2_ThrowEndsCycle ==
  \A c \in 1..Len(calls) :
    calls[c].status = "threw" =>
      LET got == Invoked(c) IN
        /\ calls[c].thrower \in 1..Len(calls[c].callbacks)
        /\ Len(got) = calls[c].thrower
        /\ \A k \in 1..Len(got) :
             /\ got[k].reg = calls[c].callbacks[k].reg
             /\ got[k].arg = calls[c].value

\* A callback threw while another collected callback was still to come.
C2_Witness ==
  \E c \in 1..Len(calls) :
    /\ calls[c].status = "threw"
    /\ calls[c].thrower < Len(calls[c].callbacks)
    /\ stack = <<>>

\* C3: removing a callback that is not in the respective collection returns
\* false, raises no error and leaves the collections, the value and the flag
\* as they were, in every state of the tracker.
C3_RemoveAbsentIsNoOp ==
  [][\A f \in Fns :
       /\ (RemoveGetOnceListener(f) /\ ~Has(_singleListeners.arr, f))
            => (ret' = "false" /\ UNCHANGED fields)
       /\ (RemoveGetEveryChangeListener(f) /\ ~Has(_multiListeners, f))
            => (ret' = "false" /\ UNCHANGED fields)
       /\ (RemoveGetNextListener(f) /\ ~Has(_nextListeners, f))
            => (ret' = "false" /\ UNCHANGED fields)]_vars

\* C4: on a tracker that is set, getOnce(cb) calls cb with the cached value at
\* once and stores it nowhere, and a removeGetOnceListener(cb) after it
\* returns false.
C4_OnceImmediate ==
  [][\A f \in Fns :
       /\ (GetOnce(f) /\ _valueAlreadySet)
            => /\ trace' = Append(trace, [reg |-> Len(regs) + 1, fn |-> f,
                                          call |-> 0, arg |-> _cached])
               /\ UNCHANGED fields
       /\ (RemoveGetOnceListener(f) /\ _valueAlreadySet
             /\ \E r \in 1..Len(regs) :
                  regs[r].fn = f /\ regs[r].kind = "once" /\ ~regs[r].queued)
            => ret' = "false"]_vars

\* C5: a callback queued by getOnce on a tracker that is not set is not
\* invoked while the tracker stays not set; the first setValue(X) invokes it
\* once with X (the call having returned, the listener not removed before);
\* no other call ever invokes it.
C5_OnceDeferred ==
  \A r \in 1..Len(regs) :
    (regs[r].kind = "once" /\ regs[r].queued) =>
      LET ev == EventsOf(r) IN
        /\ ~regs[r].set
        /\ Len(ev) <= 1
        /\ (~_valueAlreadySet => ev = <<>>)
        /\ \A k \in 1..Len(ev) :
             /\ ev[k].call # 0
             /\ calls[ev[k].call].first
             /\ ev[k].arg = calls[ev[k].call].value
        /\ \A c \in 1..Len(calls) :
             (calls[c].first /\ calls[c].status = "returned" /\ regs[r].remCall = -1)
               => Len(ev) = 1

\* A queued one-off listener was invoked by the first setValue, and a second
\* setValue has returned since.
C5_Witness ==
  \E r \in 1..Len(regs) :
    /\ regs[r].kind = "once" /\ regs[r].queued
    /\ Len(EventsOf(r)) = 1
    /\ Len(calls) >= 2
    /\ \A c \in 1..Len(calls) : calls[c].status = "returned"

\* C6: getEveryChange(cb) on a tracker that is set invokes cb at once with the
\* cached value, and on one that is not set does not; every setValue(v) begun
\* afterwards, while cb is not removed, invokes cb once with v (the call
\* having returned), and no call invokes it twice.
C6_EveryChange ==
  \A r \in 1..Len(regs) :
    regs[r].kind = "every" =>
      LET now == EventsIn(r, 0) IN
        /\ Len(now) = (IF regs[r].set THEN 1 ELSE 0)
        /\ \A k \in 1..Len(now) : now[k].arg = regs[r].value
        /\ \A c \in 1..Len(calls) :
             LET ev == EventsIn(r, c) IN
               /\ Len(ev) <= 1
               /\ \A k \in 1..Len(ev) : ev[k].arg = calls[c].value
               /\ (PresentAt(r, c) /\ calls[c].status = "returned") => Len(ev) = 1
               /\ ~PresentAt(r, c) => ev = <<>>

\* A subscriber registered on a set tracker was called at once and then by
\* each of two setValue calls.
C6_Witness ==
  \E r \in 1..Len(regs) :
    /\ regs[r].kind = "every"
    /\ regs[r].set
    /\ Len(calls) >= 2
    /\ \A c \in 1..Len(calls) : calls[c].status = "returned"
    /\ Len(EventsOf(r)) = 3

\* C7: getNext(cb) never invokes cb at registration; only the first setValue
\* begun after the registration invokes it, once and with its value (the call
\* having returned, the listener not removed before); no later call does.
C7_NextOnly ==
  \A r \in 1..Len(regs) :
    regs[r].kind = "next" =>
      LET ev == EventsOf(r) IN
        /\ Len(ev) <= 1
        /\ \A k \in 1..Len(ev) :
             /\ ev[k].call = regs[r].at + 1
             /\ ev[k].arg = calls[ev[k].call].value
        /\ (/\ Len(calls) > regs[r].at
            /\ calls[regs[r].at + 1].status = "returned"
            /\ regs[r].remCall = -1) => Len(ev) = 1

\* A next-only listener registered on a set tracker was invoked by the next
\* setValue, and one more setValue has returned since.
C7_Witness ==
  \E r \in 1..Len(regs) :
    /\ regs[r].kind = "next"
    /\ regs[r].set
    /\ Len(EventsOf(r)) = 1
    /\ Len(calls) >= regs[r].at + 2
    /\ \A c \in 1..Len(calls) : calls[c].status = "returned"

\* C8: a getNext registration made by a callback while the loop of cycle N
\* is running is not invoked by that loop, nor by any cycle begun before the
\* registration; and no cycle invokes one getNext registration twice.
C8_NextReentrant ==
  \A r \in 1..Len(regs) :
    regs[r].kind = "next" =>
      /\ \A c \in regs[r].inside : EventsIn(r, c) = <<>>
      /\ \A c \in 1..Len(calls) :
           /\ Len(EventsIn(r, c)) <= 1
           /\ (c <= regs[r].at => EventsIn(r, c) = <<>>)

\* A next-only callback registered itself again while cycle N invoked it;
\* cycle N returned having invoked it once, and cycle N+1 invoked the new
\* registration.
C8_Witness ==
  \E r, q \in 1..Len(regs) :
    /\ regs[r].kind = "next" /\ regs[q].kind = "next"
    /\ regs[r].fn = regs[q].fn
    /\ regs[q].inside = {regs[r].at + 1}
    /\ Len(EventsIn(r, regs[r].at + 1)) = 1
    /\ calls[regs[r].at + 1].status = "returned"
    /\ Len(EventsIn(q, regs[r].at + 2)) = 1

\* C9: the callbacks a setValue call invokes, and their order, are those
\* collected when the call began: its loop invokes them one after the other
\* whatever the callbacks do in between (a remove*, a registration, a nested
\* setValue), and a call that has returned has invoked every one of them.
C9_CycleFixedAtEntry ==
  \A c \in 1..Len(calls) :
    LET got == Invoked(c) IN
      /\ Len(got) <= Len(calls[c].callbacks)
      /\ \A k \in 1..Len(got) :
           /\ got[k].reg = calls[c].callbacks[k].reg
           /\ regs[got[k].reg].at < c
      /\ (calls[c].status = "returned" => Len(got) = Len(calls[c].callbacks))

\* A listener was removed by an earlier callback of a cycle and invoked by
\* that cycle all the same.
C9_Witness ==
  \E c \in 1..Len(calls) : \E k \in 1..Len(trace) :
    /\ calls[c].status = "returned"
    /\ trace[k].call = c
    /\ regs[trace[k].reg].remCall >= c
    /\ regs[trace[k].reg].remPos < k
    /\ regs[trace[k].reg].remPos >= 1

\* C10: for each of the three kinds, a callback registered and then removed
\* with the matching remover is not invoked by any setValue begun after the
\* removal.
C10_RemovedNeverInvoked ==
  \A r \in 1..Len(regs) :
    (regs[r].queued /\ regs[r].remCall # -1) =>
      \A k \in 1..Len(trace) :
        (trace[k].reg = r /\ trace[k].call # 0) => trace[k].call <= regs[r].remCall

\* A listener was removed, and a setValue begun afterwards has invoked
\* another listener and returned.
C10_Witness ==
  \E r \in 1..Len(regs) : \E c \in 1..Len(calls) :
    /\ regs[r].remCall # -1
    /\ c > regs[r].remCall
    /\ calls[c].status = "returned"
    /\ Invoked(c) # <<>>

\* C11: setSilent(X) changes the cached value to X and nothing else: no
\* callback is invoked, the flag and the three collections stay as they are.
C11_SilentIsolation ==
  [][\A v \in Values :
       SetSilent(v) =>
         /\ _cached' = v
         /\ UNCHANGED <<_valueAlreadySet, _singleListeners, _multiListeners,
                        _nextListeners, stack, regs, calls, trace>>]_vars

\* A tracker that is not set held a value, which only setSilent stores; a
\* getOnce made then was queued, and the setValue that followed was the first
\* assignment and invoked it.
C11_Witness ==
  \E r \in 1..Len(regs) : \E c \in 1..Len(calls) :
    /\ regs[r].kind = "once" /\ regs[r].queued
    /\ ~regs[r].set
    /\ regs[r].value = "v1"
    /\ calls[c].first
    /\ Len(EventsIn(r, c)) = 1

\* C12: the flag never goes from true to false, and it goes from false to
\* true only in a setValue call, which is then the first one.
C12_FlagMonotone ==
  [][/\ _valueAlreadySet => _valueAlreadySet'
     /\ (~_valueAlreadySet /\ _valueAlreadySet') =>
          /\ \E v \in Values : SetValue(v)
          /\ calls = <<>>
          /\ calls'[1].first]_vars

\* The first setValue set the flag, and a second setValue was made by one of
\* the callbacks it invoked.
C12_Witness ==
  /\ Len(calls) >= 2
  /\ calls[1].first
  /\ calls[1].status = "running"
  /\ _valueAlreadySet

\* C13: whenever the tracker is set, the one-off collection holds no
\* callback, and every getOnce made on a set tracker has called its callback
\* at once, with the cached value, instead of queuing it.
C13_OnceEmptyWhenSet ==
  /\ _valueAlreadySet => _singleListeners.arr = <<>>
  /\ \A r \in 1..Len(regs) :
       regs[r].kind = "once" =>
         /\ regs[r].queued = ~regs[r].set
         /\ regs[r].set =>
              /\ Len(EventsOf(r)) = 1
              /\ EventsOf(r)[1].call = 0
              /\ EventsOf(r)[1].arg = regs[r].value

\* A getOnce was queued before the first setValue, and another one made
\* afterwards was called at once.
C13_Witness ==
  \E r, q \in 1..Len(regs) :
    /\ regs[r].kind = "once" /\ regs[r].queued
    /\ regs[q].kind = "once" /\ ~regs[q].queued
    /\ r < q
    /\ _valueAlreadySet

\* C14: the next-only collection holds only getNext registrations made after
\* the most recent setValue began.
C14_NextOnlyRecent ==
  \A k \in 1..Len(_nextListeners) :
    /\ regs[_nextListeners[k].reg].kind = "next"
    /\ regs[_nextListeners[k].reg].at = Len(calls)

\* A getNext registration was consumed by a setValue, and the collection now
\* holds one that a callback of that cycle made.
C14_Witness ==
  \E r \in 1..Len(regs) :
    /\ regs[r].kind = "next"
    /\ regs[r].at < Len(calls)
    /\ _nextListeners # <<>>
    /\ regs[_nextListeners[1].reg].inside # {}

\* C15: after construction the cached value is the initial value, the three
\* collections are empty and the flag is true exactly when forceSetFlag is
\* true or the initial value is not undefined; on a tracker built with no
\* value and forceSetFlag = true, getOnce and getEveryChange call back at
\* once with undefined.
C15_Construction ==
  /\ ctor.kept
  /\ ops = 0 =>
       /\ _cached = ctor.initialValue
       /\ _singleListeners = Arr(<<>>)
       /\ _multiListeners = <<>>
       /\ _nextListeners = <<>>
       /\ _valueAlreadySet = (ctor.forceSetFlag \/ ctor.initialValue # Undefined)
  /\ (ctor.forceSetFlag /\ ctor.initialValue = Undefined) =>
       \A r \in 1..Len(regs) :
         (regs[r].kind \in {"once", "every"} /\ regs[r].value = Undefined) =>
           /\ Len(EventsIn(r, 0)) = 1
           /\ EventsIn(r, 0)[1].arg = Undefined

\* On a tracker built with no value and forceSetFlag = true, a getOnce and a
\* getEveryChange have called back with undefined.
C15_Witness ==
  /\ ctor.forceSetFlag /\ ctor.initialValue = Undefined
  /\ calls = <<>>
  /\ \E r, q \in 1..Len(regs) :
       /\ regs[r].kind = "once" /\ regs[q].kind = "every"
       /\ Len(EventsIn(r, 0)) = 1 /\ EventsIn(r, 0)[1].arg = Undefined
       /\ Len(EventsIn(q, 0)) = 1 /\ EventsIn(q, 0)[1].arg = Undefined

Kinds == {"once", "every", "next"}

\* The remover that goes with a registering method.
Remover(kind, f) ==
  \/ kind = "once" /\ RemoveGetOnceListener(f)
  \/ kind = "every" /\ RemoveGetEveryChangeListener(f)
  \/ kind = "next" /\ RemoveGetNextListener(f)

\* The array of registration r is as that registration left it.
AsRegistered(r) ==
  /\ regs[r].queued
  /\ ArrayOf(regs[r].kind) # <<>>
  /\ ArrayOf(regs[r].kind)[Len(ArrayOf(regs[r].kind))].reg = r
  /\ FnsOf(ArrayOf(regs[r].kind)) = Append(regs[r].before, regs[r].fn)

Count(s, g) == Cardinality({k \in 1..Len(s) : s[k] = g})

\* The sequence s without its first g.
WithoutFirst(s, g) ==
  IF \E k \in 1..Len(s) : s[k] = g
  THEN LET k == CHOOSE j \in 1..Len(s) :
                  s[j] = g /\ \A i \in 1..(j - 1) : s[i] # g
       IN  SubSeq(s, 1, k - 1) \o SubSeq(s, k + 1, Len(s))
  ELSE s

\* C16 as stated: on a tracker that is not set, removing a callback right
\* after registering it returns true and restores the collection to its
\* content before the registration; removing a callback that was never
\* registered returns false.
C16_RemoveRestores ==
  [][\A kind \in Kinds, f \in Fns :
       (~_valueAlreadySet /\ Remover(kind, f)) =>
         /\ \A r \in 1..Len(regs) :
              (regs[r].kind = kind /\ regs[r].fn = f /\ AsRegistered(r)) =>
                /\ ret' = "true"
                /\ FnsOf(ArrayOf(kind))' = regs[r].before
         /\ (\A r \in 1..Len(regs) : ~(regs[r].kind = kind /\ regs[r].fn = f)) =>
              ret' = "false"]_vars

\* C16, amended: on a tracker that is not set, removing a callback right
\* after registering it returns true and takes the earliest occurrence of
\* the callback out of the collection, which then holds the same callbacks
\* with the same multiplicities as before the registration, and is equal to
\* its content before the registration when the callback was not already in
\* it; removing a callback that was never registered returns false.
C16_RemoveTakesEarliest ==
  [][\A kind \in Kinds, f \in Fns :
       (~_valueAlreadySet /\ Remover(kind, f)) =>
         /\ \A r \in 1..Len(regs) :
              (regs[r].kind = kind /\ regs[r].fn = f /\ AsRegistered(r)) =>
                /\ ret' = "true"
                /\ FnsOf(ArrayOf(kind))' =
                     WithoutFirst(Append(regs[r].before, f), f)
                /\ \A g \in Fns : Count(FnsOf(ArrayOf(kind))', g)
                                    = Count(regs[r].before, g)
                /\ Count(regs[r].before, f) = 0 =>
                     FnsOf(ArrayOf(kind))' = regs[r].before
         /\ (\A r \in 1..Len(regs) : ~(regs[r].kind = kind /\ regs[r].fn = f)) =>
              ret' = "false"]_vars

\* A callback was registered a second time in a collection of a tracker that
\* is not set, and the removal that followed returned true, took the earlier
\* occurrence out and left the collection in another order than before the
\* second registration.
C16_Witness ==
  /\ ret = "true"
  /\ ~_valueAlreadySet
  /\ \E r, q \in 1..Len(regs) :
       /\ r < q /\ q = Len(regs)
       /\ regs[r].kind = regs[q].kind /\ regs[r].fn = regs[q].fn
       /\ regs[r].remCall # -1 /\ regs[q].remCall = -1
       /\ FnsOf(ArrayOf(regs[q].kind)) # regs[q].before
       /\ \A g \in Fns : Count(FnsOf(ArrayOf(regs[q].kind)), g)
                           = Count(regs[q].before, g)

\* A registration that is still in its array.
Live(r) ==
  /\ regs[r].queued
  /\ regs[r].remCall = -1
  /\ regs[r].kind = "once" => ~_valueAlreadySet
  /\ regs[r].kind = "next" => regs[r].at = Len(calls)

\* C17: when the same callback is registered several times in one
\* collection, a removal takes out the earliest occurrence only: every array
\* holds, in registration order, exactly the registrations not removed and
\* not consumed; a later registration of a callback is never removed while
\* an earlier one of the same callback is still in the array; and a setValue
\* call that has returned has invoked the remaining registration once and
\* the removed one not at all.
C17_RemoveEarliestDuplicate ==
  /\ \A kind \in Kinds :
       /\ Ascending(ArrayOf(kind))
       /\ {ArrayOf(kind)[k].reg : k \in 1..Len(ArrayOf(kind))}
            = {r \in 1..Len(regs) : regs[r].kind = kind /\ Live(r)}
       /\ \A k \in 1..Len(ArrayOf(kind)) :
            ArrayOf(kind)[k].fn = regs[ArrayOf(kind)[k].reg].fn
  /\ \A r, q \in 1..Len(regs) :
       (r < q /\ regs[r].kind = regs[q].kind /\ regs[r].fn = regs[q].fn
          /\ regs[q].queued) =>
         /\ Live(r) => regs[q].remCall = -1
         /\ \A c \in 1..Len(calls) :
              (/\ calls[c].status = "returned"
               /\ regs[q].kind \in {"every", "next"}
               /\ regs[r].queued /\ regs[r].remCall # -1 /\ regs[r].remCall < c
               /\ PresentAt(q, c)
               /\ regs[q].kind = "next" => regs[q].at = c - 1) =>
                /\ Len(EventsIn(q, c)) = 1
                /\ Len(EventsIn(r, c)) = 0

\* A callback was subscribed twice, one removal took the earlier subscription
\* out, and a setValue call that returned invoked the later one once.
C17_Witness ==
  \E r, q \in 1..Len(regs) : \E c \in 1..Len(calls) :
    /\ r < q
    /\ regs[r].kind = "every" /\ regs[q].kind = "every"
    /\ regs[r].fn = regs[q].fn
    /\ regs[r].queued /\ regs[r].remCall # -1 /\ regs[r].remCall < c
    /\ Live(q)
    /\ calls[c].status = "returned"
    /\ Len(EventsIn(q, c)) = 1
    /\ Len(EventsOf(r)) = 0

\* C18: every getOnce registration has at most one invocation: one made by
\* getOnce itself with the cached value when the tracker was set, or else
\* one made by the loop of the first assignment, of which there is one only,
\* and none by a later setValue, reentrant calls included.
C18_OnceAtMostOnce ==
  /\ \A c, d \in 1..Len(calls) : (calls[c].first /\ calls[d].first) => c = d
  /\ \A r \in 1..Len(regs) :
       regs[r].kind = "once" =>
         /\ Len(EventsOf(r)) <= 1
         /\ \A k \in 1..Len(EventsOf(r)) :
              IF regs[r].queued
              THEN /\ EventsOf(r)[k].call >= 1
                   /\ calls[EventsOf(r)[k].call].first
              ELSE /\ EventsOf(r)[k].call = 0
                   /\ EventsOf(r)[k].arg = regs[r].value

\* A queued getOnce callback was invoked by the first assignment, and a
\* callback of that cycle called setValue again, which returned.
C18_Witness ==
  \E r \in 1..Len(regs) :
    /\ regs[r].kind = "once" /\ regs[r].queued
    /\ Len(calls) >= 2
    /\ calls[1].first /\ calls[1].status = "running"
    /\ calls[2].status = "returned"
    /\ Len(EventsIn(r, 1)) = 1

\* Reading the history of a waitForAll call.

SlotsDelivered == {wait.delivered[k].i : k \in 1..Len(wait.delivered)}

\* The value delivered to slot i among the first n deliveries, undefined
\* when there is none.
DeliveredBy(n, i) ==
  IF \E k \in 1..n : wait.delivered[k].i = i
  THEN wait.delivered[CHOOSE k \in 1..n : wait.delivered[k].i = i].value
  ELSE Undefined

Success ==
  [error |-> Null,
   results |-> [i \in 1..wait.total |-> DeliveredBy(wait.total, i)],
   after |-> wait.total]

\* C19: waitForAll over N >= 1 trackers with no timeout: every slot is
\* delivered at most once; as long as some slot has not been delivered the
\* returned tracker has not been set; once every slot has been delivered it
\* has been set exactly once, to { error: null, results } with results[i]
\* the value delivered by tracker i.
C19_WaitForAllNoTimeout ==
  (wait.called /\ wait.total >= 1 /\ wait.timeoutMs = 0) =>
    /\ Len(wait.delivered) = Cardinality(SlotsDelivered)
    /\ wait.waiter._valueAlreadySet = (wait.emitted # <<>>)
    /\ IF SlotsDelivered = 1..wait.total
       THEN wait.emitted = <<Success>>
       ELSE wait.emitted = <<>>

\* Two trackers, no timeout: one had a value when waitForAll was called,
\* the other one delivered later, and the returned tracker was set once.
C19_Witness ==
  /\ wait.called /\ wait.total = 2 /\ wait.timeoutMs = 0
  /\ wait.trackers[1] # wait.trackers[2]
  /\ Len(wait.emitted) = 1
  /\ \E j, k \in 1..Len(wait.delivered) :
       /\ wait.delivered[j].by = "getOnce"
       /\ wait.delivered[k].by = "setValue"
       /\ wait.delivered[j].value # wait.delivered[k].value

\* C20: waitForAll with a positive timeout: when the timer has fired, which
\* it does only before every slot has been delivered, the returned tracker
\* was first set to the error payload with the results delivered until then;
\* it has been set a second time, to { error: null, results } with the full
\* results, exactly when every slot has been delivered since.
C20_WaitForAllTimeout ==
  (wait.called /\ wait.total >= 1 /\ wait.timeoutMs > 0 /\ wait.timer = "fired") =>
    /\ wait.emitted # <<>>
    /\ wait.emitted[1].error = NotDone
    /\ wait.emitted[1].after < wait.total
    /\ wait.emitted[1].results =
         [i \in 1..wait.total |-> DeliveredBy(wait.emitted[1].after, i)]
    /\ IF SlotsDelivered = 1..wait.total
       THEN wait.emitted = <<wait.emitted[1], Success>>
       ELSE wait.emitted = <<wait.emitted[1]>>

\* The timer fired when one of two slots had been delivered, and the other
\* slot was delivered afterwards: the returned tracker was set twice.
C20_Witness ==
  /\ wait.called /\ wait.total = 2 /\ wait.timer = "fired"
  /\ Len(wait.emitted) = 2
  /\ wait.emitted[1].after = 1
  /\ wait.emitted[1].error = NotDone
  /\ wait.emitted[2].error = Null

\* C21: cachedValue is the argument of the setValue or setSilent call
\* started last, also while that call or an enclosing one is still running,
\* and the constructor's initial value when there was no such call.
C21_CachedValueIsLastWrite ==
  /\ ctor.kept
  /\ cachedValue = IF ctor.written = "none" THEN ctor.initialValue
                                          ELSE ctor.written

\* A callback of a running setValue called setValue with another value, and
\* setSilent was called with the first value again.
C21_Witness ==
  /\ Len(calls) = 2
  /\ calls[1].status = "running"
  /\ calls[1].value # calls[2].value
  /\ ctor.written = calls[1].value
  /\ ctor.initialValue # ctor.written
  /\ ops = 4

\* C22: setValue(v) called while the cached value is already v starts a
\* cycle like any other: every pending next-only listener and every
\* subscriber is collected and the first callback is called with v; and a
\* cycle that has returned has invoked every callback collected for it with
\* its value.
C22_NotifiesOnSameValue ==
  /\ [][\A v \in Values :
          (SetValue(v) /\ _cached = v) =>
            /\ Len(calls') = Len(calls) + 1
            /\ calls'[Len(calls')].value = v
            /\ calls'[Len(calls')].callbacks =
                 (IF _valueAlreadySet THEN <<>> ELSE _singleListeners.arr)
                   \o _nextListeners \o _multiListeners
            /\ (_nextListeners \o _multiListeners) # <<>> =>
                 /\ Len(trace') = Len(trace) + 1
                 /\ trace'[Len(trace')].call = Len(calls')
                 /\ trace'[Len(trace')].arg = v]_vars
  /\ [](\A c \in 1..Len(calls) :
          calls[c].status = "returned" =>
            /\ Len(Invoked(c)) = Len(calls[c].callbacks)
            /\ \A k \in 1..Len(Invoked(c)) : Invoked(c)[k].arg = calls[c].value)

\* getEveryChange, setValue(v), getNext, setValue(v) and nothing else: the
\* second setValue, with the value already cached, invoked both listeners.
C22_Witness ==
  /\ ops = 4
  /\ Len(regs) = 2 /\ Len(calls) = 2
  /\ regs[1].kind = "every" /\ regs[1].at = 0
  /\ regs[2].kind = "next" /\ regs[2].at = 1
  /\ calls[1].value = calls[2].value
  /\ calls[1].status = "returned" /\ calls[2].status = "returned"
  /\ Len(EventsIn(1, 2)) = 1 /\ EventsIn(1, 2)[1].arg = calls[2].value
  /\ Len(EventsIn(2, 2)) = 1 /\ EventsIn(2, 2)[1].arg = calls[2].value

\* C23: from any state, tracker.cachedValue = v does to the tracker what
\* setValue(v) does: the same fields, the same cycle started with the same
\* callbacks collected and the same first invocation; what follows in the
\* cycle is the same loop.
C23_SetterIsSetValue ==
  [][\A v \in Values :
       SetCachedValue(v) =>
         /\ DoSetValue(v)
         /\ _cached' = v
         /\ _valueAlreadySet'
         /\ Len(calls') = Len(calls) + 1
         /\ calls'[Len(calls')].callbacks =
              (IF _valueAlreadySet THEN <<>> ELSE _singleListeners.arr)
                \o _nextListeners \o _multiListeners]_vars

\* The property was assigned on a tracker that was not set and had a
\* one-off listener and a subscriber: the cycle has begun.
C23_Witness ==
  /\ ret = "warn"
  /\ calls # <<>>
  /\ calls[Len(calls)].first
  /\ calls[Len(calls)].single # <<>>
  /\ calls[Len(calls)].multi # <<>>
  /\ calls[Len(calls)].status = "running"
  /\ _valueAlreadySet
  /\ _cached = calls[Len(calls)].value
  /\ trace # <<>>
  /\ trace[Len(trace)].call = Len(calls)

\* C24: a setValue(undefined) that finds the tracker not set is an
\* assignment like any other: the tracker is set from then on, the queued
\* one-off listeners, the next-only listeners and the subscribers are
\* collected and invoked with undefined, all of them once the call has
\* returned, and every getOnce made afterwards calls back at once.
C24_UndefinedIsAssignment ==
  \A c \in 1..Len(calls) :
    (calls[c].first /\ calls[c].value = Undefined) =>
      /\ _valueAlreadySet
      /\ calls[c].callbacks = calls[c].single \o calls[c].next \o calls[c].multi
      /\ \A k \in 1..Len(Invoked(c)) :
           /\ Invoked(c)[k].reg = calls[c].callbacks[k].reg
           /\ Invoked(c)[k].arg = Undefined
      /\ calls[c].status = "returned" =>
           Len(Invoked(c)) = Len(calls[c].callbacks)
      /\ \A r \in 1..Len(regs) :
           (regs[r].kind = "once" /\ regs[r].at >= c) =>
             /\ ~regs[r].queued
             /\ Len(EventsIn(r, 0)) = 1
             /\ EventsIn(r, 0)[1].arg = regs[r].value

\* setValue(undefined) on a tracker that was not set invoked a one-off
\* listener and another listener and returned; a getOnce made afterwards was
\* called at once with undefined.
C24_Witness ==
  \E c \in 1..Len(calls) : \E r \in 1..Len(regs) :
    /\ calls[c].first /\ calls[c].value = Undefined
    /\ calls[c].status = "returned"
    /\ calls[c].single # <<>>
    /\ Len(calls[c].callbacks) >= 2
    /\ regs[r].kind = "once" /\ regs[r].at >= c /\ ~regs[r].queued
    /\ Len(EventsIn(r, 0)) = 1
    /\ EventsIn(r, 0)[1].arg = Undefined

\* Registration r is in the array of its kind.
InOwnArray(r) ==
  \E k \in 1..Len(ArrayOf(regs[r].kind)) : ArrayOf(regs[r].kind)[k].reg = r

\* C25: the three collections are independent: each array holds
\* registrations of its own method only, and when a callback is registered
\* through more than one method, each of its registrations is in its array
\* exactly as long as it has not been removed by its own remover nor
\* consumed by a setValue as its own kind is (every: never), whatever
\* happened to the callback's registrations in the other collections.
C25_CollectionsIndependent ==
  /\ \A kind \in Kinds : \A k \in 1..Len(ArrayOf(kind)) :
       regs[ArrayOf(kind)[k].reg].kind = kind
  /\ \A r, q \in 1..Len(regs) :
       (/\ regs[r].fn = regs[q].fn
        /\ regs[r].kind # regs[q].kind
        /\ regs[r].queued /\ regs[q].queued) =>
         /\ InOwnArray(r) = Live(r)
         /\ regs[r].kind = "every" => (InOwnArray(r) = (regs[r].remCall = -1))

\* The same callback was registered with getOnce and with getEveryChange,
\* removeGetOnceListener took the one-off registration out, and the first
\* setValue invoked the callback once, as subscriber, and left it subscribed.
C25_Witness ==
  \E r, q \in 1..Len(regs) : \E c \in 1..Len(calls) :
    /\ regs[r].kind = "once" /\ regs[q].kind = "every"
    /\ regs[r].fn = regs[q].fn
    /\ regs[r].queued /\ regs[r].remCall # -1
    /\ calls[c].first /\ calls[c].status = "returned"
    /\ Len(EventsOf(r)) = 0
    /\ Len(EventsIn(q, c)) = 1
    /\ InOwnArray(q)

\* The last value delivered to registration r.
LastDelivered(r) == EventsOf(r)[Len(EventsOf(r))].arg

\* C26: when no setValue call is running, none has thrown and the cached
\* value is that of the setValue call started last (no setSilent changed it
\* since), the last value delivered to every subscriber that subscribed
\* before the first setValue call and was not removed is the cached value,
\* also when callbacks called setValue during a cycle.
C26_LastDeliveredIsCached ==
  (/\ stack = <<>>
   /\ calls # <<>>
   /\ \A c \in 1..Len(calls) : calls[c].status = "returned"
   /\ _cached = calls[Len(calls)].value) =>
    \A r \in 1..Len(regs) :
      (regs[r].kind = "every" /\ regs[r].at = 0 /\ regs[r].remCall = -1) =>
        /\ EventsOf(r) # <<>>
        /\ LastDelivered(r) = cachedValue

\* C27: waitForAll with a positive timeout: among the payloads the returned
\* tracker is set to, no error payload comes after a success payload, and
\* once the success payload has been emitted the timer cannot fire any more.
C27_NoErrorAfterSuccess ==
  (wait.called /\ wait.timeoutMs > 0) =>
    /\ \A j, k \in 1..Len(wait.emitted) :
         (j < k /\ wait.emitted[j].error = Null) => wait.emitted[k].error = Null
    /\ (\E j \in 1..Len(wait.emitted) : wait.emitted[j].error = Null) =>
         wait.timer # "armed"

\* With a positive timeout, the last of two trackers delivered through
\* setValue before the timer fired: the success payload was emitted, the
\* timer was cleared.
C27_Witness ==
  /\ wait.called /\ wait.timeoutMs > 0 /\ wait.total = 2
  /\ wait.timer = "cleared"
  /\ Len(wait.emitted) = 1
  /\ wait.emitted[1].error = Null
  /\ wait.delivered[Len(wait.delivered)].by = "setValue"

\* C28: waitForAll called with an empty array and no timeout returns a
\* tracker that is never set: it stays not set and no setValue is made on
\* it, whatever happens to the trackers that exist.
C28_EmptyListNeverSet ==
  (wait.called /\ wait.total = 0 /\ wait.timeoutMs = 0) =>
    /\ wait.emitted = <<>>
    /\ ~wait.waiter._valueAlreadySet
    /\ wait.timer = "none"
    /\ wait.fulfilled = 0

\* waitForAll([]) was called without timeout, and every tracker that exists
\* has been set since or before.
C28_Witness ==
  /\ wait.called /\ wait.total = 0 /\ wait.timeoutMs = 0
  /\ wait.trackers = <<>>
  /\ \A t \in Ids : wait.inputs[t]._valueAlreadySet
  /\ \E t \in Ids : wait.inputs[t]._singleListeners.null

====
